---- MODULE Spec2Model ----
(***************************************************************************)
(* Model of the Sokoban rule engine in src/src/engine.rs: the Cell algebra *)
(* (seprate, overlay, vol, shift) and the Scene (load, the four moves,     *)
(* undo, is_pass) with its grid, player coordinate and history stack.      *)
(*                                                                         *)
(* Coordinates are 0-based as in the source; a grid is a sequence of rows, *)
(* each a sequence of cells, so map[r][c] of the source is At(m, <<r,c>>). *)
(* An index outside a Vec, and a usize subtraction below 0 (a panic in a   *)
(* debug build, a wrap to a huge index and then an index panic in a        *)
(* release build), both end the call in a panic: panicked becomes TRUE and *)
(* no further call is made.                                                *)
(***************************************************************************)
EXTENDS Integers, Sequences, FiniteSets

VARIABLES
    map,        \* Scene.map
    player,     \* Scene.player
    history,    \* Scene.history
    op,         \* the last call made
    ret,        \* what it returned (a move's bool; for undo, whether pop() gave Some)
    panicked,   \* whether it panicked
    loads,      \* how many calls of load were made
    loaded,     \* argument of the last call of load
    triple,     \* argument of the last direct call of Cell::shift
    shifted     \* the triple that call returned

vars == <<map, player, history, op, ret, panicked, loads, loaded, triple, shifted>>

\* Bound on the history stack: a successful move is taken only below it.
MaxHist == 3

\* Bound on the number of load calls of one run.
MaxLoads == 2

\* Bound on the history stack in a session of a single load.
MaxMoves == 5

-----------------------------------------------------------------------------
(* Cell *)

Cell == {"Case", "Wall", "Ground", "Player", "Target", "PlayerOnTarget", "CaseOnTarget"}

Triples == Cell \X Cell \X Cell

vol(c) == IF c = "Ground" \/ c = "Target" THEN 0 ELSE 1

\* An overlay that forgets the target under a unit.
overlay_flat(self, unit) ==
    CASE self \in {"Ground", "Target"} /\ unit = "Case" -> "Case"
      [] self \in {"Ground", "Target"} /\ unit = "Player" -> "Player"
      [] OTHER -> self

overlay(self, unit) ==
    CASE self = "Ground" ->
            (CASE unit = "Case" -> "Case"
               [] unit = "Player" -> "Player"
               [] OTHER -> "Ground")
      [] self = "Target" ->
            (CASE unit = "Case" -> "CaseOnTarget"
               [] unit = "Player" -> "PlayerOnTarget"
               [] OTHER -> "Target")
      [] OTHER -> self

\* A seprate that takes every case for a case on ground.
seprate_ground(self) ==
    CASE self \in {"Case", "CaseOnTarget"} -> <<"Ground", "Case">>
      [] self = "Player" -> <<"Ground", "Player">>
      [] self = "PlayerOnTarget" -> <<"Target", "Player">>
      [] OTHER -> <<self, "Ground">>

seprate(self) ==
    CASE self = "Case" -> <<"Ground", "Case">>
      [] self = "CaseOnTarget" -> <<"Target", "Case">>
      [] self = "Player" -> <<"Ground", "Player">>
      [] self = "PlayerOnTarget" -> <<"Target", "Player">>
      [] OTHER -> <<self, "Ground">>

\* A shift that skips the volume check and always reports success.
shift_unchecked(t) ==
    LET l_sep == seprate(t[1])
        m_sep == seprate(t[2])
    IN  << <<l_sep[1], overlay(m_sep[1], l_sep[2]), overlay(t[3], m_sep[2])>>, TRUE >>

\* A shift that accepts any outcome whose volume did not grow.
shift_lossy(t) ==
    LET l_sep == seprate(t[1])
        m_sep == seprate(t[2])
        m_overlay == overlay(m_sep[1], l_sep[2])
        r_overlay == overlay(t[3], m_sep[2])
    IN  IF vol(t[1]) + vol(t[2]) + vol(t[3]) >= vol(l_sep[1]) + vol(m_overlay) + vol(r_overlay)
        THEN << <<l_sep[1], m_overlay, r_overlay>>, TRUE >>
        ELSE << t, FALSE >>

shift(t) ==
    LET l == t[1]
        m == t[2]
        r == t[3]
        l_sep == seprate(l)
        l_origin == l_sep[1]
        l_move == l_sep[2]
        m_sep == seprate(m)
        m_origin == m_sep[1]
        m_move == m_sep[2]
        m_overlay == overlay(m_origin, l_move)
        r_overlay == overlay(r, m_move)
        valid_vol == vol(l) + vol(m) + vol(r)
        new_vol == vol(l_origin) + vol(m_overlay) + vol(r_overlay)
    IN  IF valid_vol = new_vol
        THEN << <<l_origin, m_overlay, r_overlay>>, TRUE >>
        ELSE << <<l, m, r>>, FALSE >>

-----------------------------------------------------------------------------
(* Scene: helpers for Vec<Vec<Cell>> indexing *)

InBounds(m, rc) ==
    /\ rc[1] >= 0 /\ rc[1] < Len(m)
    /\ rc[2] >= 0 /\ rc[2] < Len(m[rc[1] + 1])

At(m, rc) == m[rc[1] + 1][rc[2] + 1]

Put(m, rc, cell) == [m EXCEPT ![rc[1] + 1][rc[2] + 1] = cell]

-----------------------------------------------------------------------------
(* Scene::load *)

LegalChars == {" ", "#", "o", "O", "x", "i", "I"}

ParseChar(column) ==
    CASE column = " " -> "Ground"
      [] column = "#" -> "Wall"
      [] column = "o" -> "Case"
      [] column = "O" -> "CaseOnTarget"
      [] column = "x" -> "Target"
      [] column = "i" -> "Player"
      [] column = "I" -> "PlayerOnTarget"

\* The inner loop over row.chars(): the cells pushed so far, the player
\* coordinate as assigned so far, and whether the loop panicked.
RECURSIVE LoadColumns(_, _, _, _, _)
LoadColumns(row, r, c, columns, pl) ==
    IF c = Len(row)
    THEN [columns |-> columns, player |-> pl, panic |-> FALSE]
    ELSE LET column == row[c + 1]
         IN  IF column \notin LegalChars
             THEN [columns |-> columns, player |-> pl, panic |-> TRUE]
             ELSE LoadColumns(row, r, c + 1, Append(columns, ParseChar(column)),
                              IF column \in {"i", "I"} THEN <<r, c>> ELSE pl)

\* The outer loop over layout.iter(): a row is pushed onto the map only when
\* all of its characters have been parsed.
RECURSIVE LoadRows(_, _, _, _)
LoadRows(layout, r, m, pl) ==
    IF r = Len(layout)
    THEN [map |-> m, player |-> pl, panic |-> FALSE]
    ELSE LET row == LoadColumns(layout[r + 1], r, 0, <<>>, pl)
         IN  IF row.panic
             THEN [map |-> m, player |-> row.player, panic |-> TRUE]
             ELSE LoadRows(layout, r + 1, Append(m, row.columns), row.player)

\* self.map.clear() and then the loops; the history is not touched.
LoadResult(layout, pl, h) ==
    LET done == LoadRows(layout, 0, <<>>, pl)
    IN  [map |-> done.map, player |-> done.player, history |-> h, panic |-> done.panic]

-----------------------------------------------------------------------------
(* Scene::move_right, move_left, move_upward, move_down *)

Right == <<0, 1>>
Left == <<0, -1>>
Upward == <<-1, 0>>
Down == <<1, 0>>

Ahead(rc, d, k) == <<rc[1] + k * d[1], rc[2] + k * d[2]>>

\* A move that advances the player whether or not the shift succeeded.
MoveResultAlways(m, pl, h, d) ==
    LET f == pl
        p == Ahead(pl, d, 1)
        t == Ahead(pl, d, 2)
    IN  IF ~(InBounds(m, f) /\ InBounds(m, p) /\ InBounds(m, t))
        THEN [map |-> m, player |-> pl, history |-> h, moved |-> FALSE, panic |-> TRUE]
        ELSE LET origin == <<At(m, f), At(m, p), At(m, t)>>
                 res == shift(origin)
             IN  [map |-> Put(Put(Put(m, f, res[1][1]), p, res[1][2]), t, res[1][3]),
                  player |-> p,
                  history |-> IF res[2] THEN Append(h, <<f, p, t, origin>>) ELSE h,
                  moved |-> res[2], panic |-> FALSE]

\* A move that advances the player by two cells.
MoveResultFar(m, pl, h, d) ==
    LET f == pl
        p == Ahead(pl, d, 1)
        t == Ahead(pl, d, 2)
    IN  IF ~(InBounds(m, f) /\ InBounds(m, p) /\ InBounds(m, t))
        THEN [map |-> m, player |-> pl, history |-> h, moved |-> FALSE, panic |-> TRUE]
        ELSE LET origin == <<At(m, f), At(m, p), At(m, t)>>
                 res == shift(origin)
             IN  IF res[2]
                 THEN [map |-> Put(Put(Put(m, f, res[1][1]), p, res[1][2]), t, res[1][3]),
                       player |-> t,
                       history |-> Append(h, <<f, p, t, origin>>),
                       moved |-> TRUE, panic |-> FALSE]
                 ELSE [map |-> m, player |-> pl, history |-> h, moved |-> FALSE, panic |-> FALSE]

\* A move that records the transformed triple instead of the original one.
MoveResultWrongRecord(m, pl, h, d) ==
    LET f == pl
        p == Ahead(pl, d, 1)
        t == Ahead(pl, d, 2)
    IN  IF ~(InBounds(m, f) /\ InBounds(m, p) /\ InBounds(m, t))
        THEN [map |-> m, player |-> pl, history |-> h, moved |-> FALSE, panic |-> TRUE]
        ELSE LET origin == <<At(m, f), At(m, p), At(m, t)>>
                 res == shift(origin)
             IN  IF res[2]
                 THEN [map |-> Put(Put(Put(m, f, res[1][1]), p, res[1][2]), t, res[1][3]),
                       player |-> p,
                       history |-> Append(h, <<f, p, t, res[1]>>),
                       moved |-> TRUE, panic |-> FALSE]
                 ELSE [map |-> m, player |-> pl, history |-> h, moved |-> FALSE, panic |-> FALSE]

\* A move whose third write lands one cell too far when that cell exists.
MoveResultThirdOff(m, pl, h, d) ==
    LET f == pl
        p == Ahead(pl, d, 1)
        t == Ahead(pl, d, 2)
        w == IF InBounds(m, Ahead(pl, d, 3)) THEN Ahead(pl, d, 3) ELSE t
    IN  IF ~(InBounds(m, f) /\ InBounds(m, p) /\ InBounds(m, t))
        THEN [map |-> m, player |-> pl, history |-> h, moved |-> FALSE, panic |-> TRUE]
        ELSE LET origin == <<At(m, f), At(m, p), At(m, t)>>
                 res == shift(origin)
             IN  IF res[2]
                 THEN [map |-> Put(Put(Put(m, f, res[1][1]), p, res[1][2]), w, res[1][3]),
                       player |-> p,
                       history |-> Append(h, <<f, p, t, origin>>),
                       moved |-> TRUE, panic |-> FALSE]
                 ELSE [map |-> m, player |-> pl, history |-> h, moved |-> FALSE, panic |-> FALSE]

\* The body the four moves share, for the direction d: the three reads (a
\* panic when one is outside the grid, before anything is written), the
\* shift, and on success the three writes, the player and the record.
MoveResult(m, pl, h, d) ==
    LET f == pl
        p == Ahead(pl, d, 1)
        t == Ahead(pl, d, 2)
    IN  IF ~(InBounds(m, f) /\ InBounds(m, p) /\ InBounds(m, t))
        THEN [map |-> m, player |-> pl, history |-> h, moved |-> FALSE, panic |-> TRUE]
        ELSE LET origin == <<At(m, f), At(m, p), At(m, t)>>
                 res == shift(origin)
                 transform == res[1]
                 moved == res[2]
             IN  IF moved
                 THEN [map |-> Put(Put(Put(m, f, transform[1]), p, transform[2]), t, transform[3]),
                       player |-> p,
                       history |-> Append(h, <<f, p, t, origin>>),
                       moved |-> TRUE, panic |-> FALSE]
                 ELSE [map |-> m, player |-> pl, history |-> h, moved |-> FALSE, panic |-> FALSE]

-----------------------------------------------------------------------------
(* Scene::undo *)

\* An undo that leaves the far cell as the move left it.
UndoResultTwoCells(m, pl, h) ==
    IF h = <<>>
    THEN [map |-> m, player |-> pl, history |-> h, some |-> FALSE, panic |-> FALSE]
    ELSE LET rec == h[Len(h)]
             m1 == Put(m, rec[1], rec[4][1])
             m2 == Put(m1, rec[2], rec[4][2])
         IN  [map |-> m2, player |-> rec[1], history |-> SubSeq(h, 1, Len(h) - 1),
              some |-> TRUE, panic |-> FALSE]

\* An undo that resets the player on an empty history too.
UndoResultReset(m, pl, h) ==
    IF h = <<>>
    THEN [map |-> m, player |-> <<0, 0>>, history |-> h, some |-> FALSE, panic |-> FALSE]
    ELSE LET rec == h[Len(h)]
         IN  [map |-> Put(Put(Put(m, rec[1], rec[4][1]), rec[2], rec[4][2]), rec[3], rec[4][3]),
              player |-> rec[1], history |-> SubSeq(h, 1, Len(h) - 1),
              some |-> TRUE, panic |-> FALSE]

\* history.pop() and the Some arm's three writes in order, each a panic when
\* its coordinate is outside the grid (the record is popped by then and the
\* earlier writes stay), then the player.
UndoResult(m, pl, h) ==
    IF h = <<>>
    THEN [map |-> m, player |-> pl, history |-> h, some |-> FALSE, panic |-> FALSE]
    ELSE LET rec == h[Len(h)]
             rest == SubSeq(h, 1, Len(h) - 1)
             f == rec[1]
             p == rec[2]
             t == rec[3]
             tr == rec[4]
         IN  IF ~InBounds(m, f)
             THEN [map |-> m, player |-> pl, history |-> rest, some |-> TRUE, panic |-> TRUE]
             ELSE IF ~InBounds(m, p)
             THEN [map |-> Put(m, f, tr[1]), player |-> pl, history |-> rest,
                   some |-> TRUE, panic |-> TRUE]
             ELSE IF ~InBounds(m, t)
             THEN [map |-> Put(Put(m, f, tr[1]), p, tr[2]), player |-> pl, history |-> rest,
                   some |-> TRUE, panic |-> TRUE]
             ELSE [map |-> Put(Put(Put(m, f, tr[1]), p, tr[2]), t, tr[3]), player |-> f,
                   history |-> rest, some |-> TRUE, panic |-> FALSE]

-----------------------------------------------------------------------------
(* Scene::is_pass *)

\* r.iter().filter(|x| **x == Cell::Case).count() of one row.
RECURSIVE CountCase(_, _)
CountCase(row, c) ==
    IF c > Len(row) THEN 0
    ELSE (IF row[c] = "Case" THEN 1 ELSE 0) + CountCase(row, c + 1)

\* A count that takes a case on a target for a case too.
RECURSIVE CountCaseAny(_, _)
CountCaseAny(row, c) ==
    IF c > Len(row) THEN 0
    ELSE (IF row[c] \in {"Case", "CaseOnTarget"} THEN 1 ELSE 0) + CountCaseAny(row, c + 1)

\* The fold of the rows' counts, from 0.
RECURSIVE FoldCounts(_, _, _)
FoldCounts(m, r, sum) ==
    IF r > Len(m) THEN sum ELSE FoldCounts(m, r + 1, sum + CountCase(m[r], 1))

RECURSIVE FoldCountsAny(_, _, _)
FoldCountsAny(m, r, sum) ==
    IF r > Len(m) THEN sum ELSE FoldCountsAny(m, r + 1, sum + CountCaseAny(m[r], 1))

IsPassAny(m) == FoldCountsAny(m, 1, 0) = 0

IsPass(m) == FoldCounts(m, 1, 0) = 0

-----------------------------------------------------------------------------
(* The layouts the callers load *)

\* The example of the documentation: a one-cell wall border around 3x3.
LayoutExample ==
    << <<"#", "#", "#", "#", "#">>,
       <<"#", "i", " ", " ", "#">>,
       <<"#", " ", "o", " ", "#">>,
       <<"#", " ", " ", "x", "#">>,
       <<"#", "#", "#", "#", "#">> >>

\* The one-row scenario "iox".
LayoutRow == << <<"i", "o", "x">> >>

\* No border, the player on a target in the middle: a case before a wall
\* above, a wall to the left, a free case to the right, two cases below.
LayoutOpen ==
    << <<" ", " ", "#", " ", " ">>,
       <<" ", " ", "o", " ", " ">>,
       <<"#", "#", "I", "o", " ">>,
       <<" ", "x", "o", " ", " ">>,
       <<" ", " ", "o", " ", " ">> >>

\* A layout whose second row holds a character outside the vocabulary.
LayoutIllegal ==
    << <<" ", "i", "o">>,
       <<"I", "?", "x">> >>

Layouts == {LayoutExample, LayoutRow, LayoutOpen, LayoutIllegal}

MoveOps == {"move_right", "move_left", "move_upward", "move_down"}

-----------------------------------------------------------------------------
(* The state machine *)

\* Scene::init(), before any call.
Init ==
    /\ map = <<>>
    /\ player = <<0, 0>>
    /\ history = <<>>
    /\ op = "init"
    /\ ret = FALSE
    /\ panicked = FALSE
    /\ loads = 0
    /\ loaded = <<>>
    /\ triple = <<>>
    /\ shifted = <<>>

load(layout) ==
    /\ ~panicked
    /\ loads < MaxLoads
    /\ loads' = loads + 1
    /\ loaded' = layout
    /\ LET res == LoadResult(layout, player, history)
       IN  /\ map' = res.map
           /\ player' = res.player
           /\ history' = res.history
           /\ panicked' = res.panic
    /\ op' = "load"
    /\ ret' = FALSE
    /\ UNCHANGED <<triple, shifted>>

\* A move in the direction d, taken when successful only while the history
\* is shorter than bound.
MoveWithin(name, d, bound) ==
    /\ ~panicked
    /\ LET res == MoveResult(map, player, history, d)
       IN  /\ res.moved => Len(history) < bound
           /\ map' = res.map
           /\ player' = res.player
           /\ history' = res.history
           /\ ret' = res.moved
           /\ panicked' = res.panic
    /\ op' = name
    /\ UNCHANGED <<loads, loaded, triple, shifted>>

Move(name, d) == MoveWithin(name, d, MaxHist)

move_right == Move("move_right", Right)

move_left == Move("move_left", Left)

move_upward == Move("move_upward", Upward)

move_down == Move("move_down", Down)

undo ==
    /\ ~panicked
    /\ LET res == UndoResult(map, player, history)
       IN  /\ map' = res.map
           /\ player' = res.player
           /\ history' = res.history
           /\ ret' = res.some
           /\ panicked' = res.panic
    /\ op' = "undo"
    /\ UNCHANGED <<loads, loaded, triple, shifted>>

\* The query is_pass(): nothing of the scene changes.
is_pass ==
    /\ ~panicked
    /\ op' = "is_pass"
    /\ ret' = IsPass(map)
    /\ UNCHANGED <<map, player, history, panicked, loads, loaded, triple, shifted>>

Next ==
    \/ \E layout \in Layouts : load(layout)
    \/ move_right
    \/ move_left
    \/ move_upward
    \/ move_down
    \/ undo
    \/ is_pass

Spec == Init /\ [][Next]_vars

\* A session of a single load: the scene is populated once and then only
\* moved, undone and queried.
load_once == loads = 0 /\ \E layout \in Layouts : load(layout)

NextOne ==
    \/ load_once
    \/ MoveWithin("move_right", Right, MaxMoves)
    \/ MoveWithin("move_left", Left, MaxMoves)
    \/ MoveWithin("move_upward", Upward, MaxMoves)
    \/ MoveWithin("move_down", Down, MaxMoves)
    \/ undo
    \/ is_pass

SpecOne == Init /\ [][NextOne]_vars

\* A direct call of the public Cell::shift on any triple.
CallShift(t) ==
    /\ ~panicked
    /\ triple' = t
    /\ shifted' = shift(t)[1]
    /\ ret' = shift(t)[2]
    /\ op' = "shift"
    /\ UNCHANGED <<map, player, history, panicked, loads, loaded>>

NextShift == \E t \in Triples : CallShift(t)

SpecShift == Init /\ [][NextShift]_vars

\* Direct calls of the private Cell::seprate and Cell::overlay, as code of
\* the same file can make them.
CallSeprate(c) ==
    /\ ~panicked
    /\ triple' = <<c>>
    /\ shifted' = seprate(c)
    /\ ret' = FALSE
    /\ op' = "seprate"
    /\ UNCHANGED <<map, player, history, panicked, loads, loaded>>

CallOverlay(floor, unit) ==
    /\ ~panicked
    /\ triple' = <<floor, unit>>
    /\ shifted' = <<overlay(floor, unit)>>
    /\ ret' = FALSE
    /\ op' = "overlay"
    /\ UNCHANGED <<map, player, history, panicked, loads, loaded>>

NextCell ==
    \/ \E t \in Triples : CallShift(t)
    \/ \E c \in Cell : CallSeprate(c)
    \/ \E floor \in Cell, unit \in Cell : CallOverlay(floor, unit)

SpecCell == Init /\ [][NextCell]_vars

-----------------------------------------------------------------------------
(* Vocabulary of the properties *)

PlayerBearing == {"Player", "PlayerOnTarget"}

CaseBearing == {"Case", "CaseOnTarget"}

BareFloor == {"Ground", "Target"}

Coords(m) == UNION {{<<r - 1, c - 1>> : c \in 1 .. Len(m[r])} : r \in 1 .. Len(m)}

PlayerCells(m) == {rc \in Coords(m) : At(m, rc) \in PlayerBearing}

VolSum(t) == vol(t[1]) + vol(t[2]) + vol(t[3])

RECURSIVE RowVol(_, _)
RowVol(row, c) == IF c > Len(row) THEN 0 ELSE vol(row[c]) + RowVol(row, c + 1)

RECURSIVE GridVol(_, _)
GridVol(m, r) == IF r > Len(m) THEN 0 ELSE RowVol(m[r], 1) + GridVol(m, r + 1)

\* The floor under a non-wall cell, and a unit standing on a floor.
FloorOf(c) == IF c \in {"Target", "PlayerOnTarget", "CaseOnTarget"} THEN "Target" ELSE "Ground"

OnFloor(unit, floor) ==
    IF unit = "Player"
    THEN (IF floor = "Target" THEN "PlayerOnTarget" ELSE "Player")
    ELSE (IF floor = "Target" THEN "CaseOnTarget" ELSE "Case")

\* A rectangular grid whose outermost rows and columns are all Wall.
WallBordered(m) ==
    /\ Len(m) >= 3
    /\ \A r \in 1 .. Len(m) : Len(m[r]) = Len(m[1])
    /\ Len(m[1]) >= 3
    /\ \A c \in 1 .. Len(m[1]) : m[1][c] = "Wall" /\ m[Len(m)][c] = "Wall"
    /\ \A r \in 1 .. Len(m) : m[r][1] = "Wall" /\ m[r][Len(m[r])] = "Wall"

TopRecord == history[Len(history)]

\* Over all 343 triples: a successful shift returns a triple of the same
\* volume sum as its input.
ShiftConservesVolume ==
    \A t \in Triples : shift(t)[2] => VolSum(shift(t)[1]) = VolSum(t)

-----------------------------------------------------------------------------
(* Properties *)

\* C1: a move that returns true is undone exactly by one undo: the undo of
\* the state after the move gives back the grid, the player coordinate and
\* the history of the state before it, without a panic.
C1_MoveUndoRoundTrip ==
    [][(op' \in MoveOps /\ ret' /\ ~panicked') =>
            LET u == UndoResult(map', player', history')
            IN  /\ ~u.panic
                /\ u.map = map
                /\ u.player = player
                /\ u.history = history]_vars

\* A successful move that pushed a case has just been made.
C1_Witness ==
    /\ op \in MoveOps /\ ret /\ ~panicked
    /\ history # <<>>
    /\ TopRecord[4][2] \in CaseBearing

\* C2 (as claimed): after a load the history is empty, so an undo issued
\* right after it leaves the loaded grid and player coordinate unchanged.
C2_LoadStartsFresh ==
    (op = "load" /\ ~panicked) =>
        /\ history = <<>>
        /\ LET u == UndoResult(map, player, history)
           IN  ~u.panic /\ u.map = map /\ u.player = player

\* C3: a move that returns false leaves the grid, the player coordinate and
\* the history exactly as they were.
C3_RejectedMoveNoOp ==
    [][(op' \in MoveOps /\ ~ret' /\ ~panicked') =>
            (map' = map /\ player' = player /\ history' = history)]_vars

\* A move has just been rejected.
C3_Witness == op \in MoveOps /\ ~ret /\ ~panicked /\ loads > 0

\* C4 (as claimed): after any sequence of loads, in-bounds moves and undos
\* exactly one grid cell is Player or PlayerOnTarget.
C4_UniquePlayer ==
    (loads > 0 /\ ~panicked) => Cardinality(PlayerCells(map)) = 1

\* C5: after any sequence of loads, in-bounds moves and undos the cell at
\* the player coordinate is Player or PlayerOnTarget.
C5_PlayerCoordinate ==
    (loads > 0 /\ ~panicked) =>
        (InBounds(map, player) /\ At(map, player) \in PlayerBearing)

\* An undo has put the player back onto a target after a reload.
C5_Witness ==
    /\ op = "undo" /\ ret /\ ~panicked /\ loads > 1
    /\ At(map, player) = "PlayerOnTarget"

\* C6: (a) on every triple on which shift reports success the volume sum of
\* the returned triple equals that of the input; (b) every move call,
\* successful or rejected, leaves the total volume of the grid unchanged.
C6_VolumeConservation ==
    [][/\ ShiftConservesVolume
       /\ op' \in MoveOps => GridVol(map', 1) = GridVol(map, 1)]_vars

\* A successful move has pushed a case onto a target.
C6_Witness ==
    /\ op \in MoveOps /\ ret /\ ~panicked
    /\ history # <<>>
    /\ TopRecord[4][2] = "Case" /\ TopRecord[4][3] = "Target"
    /\ At(map, TopRecord[3]) = "CaseOnTarget"

\* C7: shift fails on (player, Wall, any), fails on (player, case, R) for R
\* Wall, Case or CaseOnTarget, and whenever it fails it returns its input.
C7_ShiftRejection ==
    op = "shift" =>
        /\ (triple[1] \in PlayerBearing /\ triple[2] = "Wall") => ~ret
        /\ (/\ triple[1] \in PlayerBearing
            /\ triple[2] \in CaseBearing
            /\ triple[3] \in {"Wall", "Case", "CaseOnTarget"}) => ~ret
        /\ ~ret => shifted = triple

\* shift was called on a player before a case that is blocked by a case.
C7_Witness ==
    /\ op = "shift" /\ ~ret
    /\ triple = <<"PlayerOnTarget", "CaseOnTarget", "Case">>

\* C8: for L player-bearing and M not player-bearing, shift succeeds exactly
\* when M is bare floor (a walk) or M is a case and R is bare floor (a push);
\* a walk returns (floor of L, player on the floor of M, R) and a push
\* returns (floor of L, player on the floor of M, case on the floor of R).
C8_ShiftPushRule ==
    (op = "shift" /\ triple[1] \in PlayerBearing /\ triple[2] \notin PlayerBearing) =>
        LET L == triple[1]
            M == triple[2]
            R == triple[3]
            walk == M \in BareFloor
            push == M \in CaseBearing /\ R \in BareFloor
        IN  /\ ret = (walk \/ push)
            /\ walk => shifted = <<FloorOf(L), OnFloor("Player", FloorOf(M)), R>>
            /\ push => shifted = <<FloorOf(L), OnFloor("Player", FloorOf(M)),
                                   OnFloor("Case", FloorOf(R))>>
            /\ triple = <<"Player", "Ground", "Ground">> =>
                    (ret /\ shifted = <<"Ground", "Player", "Ground">>)

\* shift was called on a push from a target, off a target, onto a target.
C8_Witness ==
    /\ op = "shift" /\ ret
    /\ triple = <<"PlayerOnTarget", "CaseOnTarget", "Target">>
    /\ shifted = <<"Target", "PlayerOnTarget", "CaseOnTarget">>

\* C9 (as claimed): on a grid with a one-cell wall border no move panics on
\* an index outside the grid.
C9_WallBorderSafe ==
    (op \in MoveOps /\ WallBordered(map)) => ~panicked

\* C10: an undo on an empty history leaves the grid, the player coordinate
\* and the history unchanged and does not panic.
C10_UndoEmpty ==
    [][(op' = "undo" /\ history = <<>>) =>
            (map' = map /\ player' = player /\ history' = <<>> /\ ~panicked')]_vars

\* An undo has found the history of a loaded scene empty.
C10_Witness == op = "undo" /\ ~ret /\ ~panicked /\ loads > 0 /\ history = <<>>

\* No cell of the grid is a case on ground.
NoCaseLeft(m) == \A rc \in Coords(m) : At(m, rc) # "Case"

\* C11: is_pass is true exactly when no grid cell equals Case, whatever the
\* numbers of the other cells are; the query returns that value.
C11_SolvedDetection ==
    /\ IsPass(map) = NoCaseLeft(map)
    /\ op = "is_pass" => ret = NoCaseLeft(map)

\* is_pass has returned true on a grid that holds a case on a target.
C11_Witness ==
    /\ op = "is_pass" /\ ret /\ loads > 0
    /\ \E rc \in Coords(map) : At(map, rc) = "CaseOnTarget"

\* The grid holds some, and not all, of the rows of the layout.
PartialGrid(m, layout) ==
    /\ m # <<>>
    /\ Len(m) < Len(layout)
    /\ \A r \in 1 .. Len(m) :
          /\ Len(m[r]) = Len(layout[r])
          /\ \A c \in 1 .. Len(m[r]) :
                layout[r][c] \in LegalChars /\ m[r][c] = ParseChar(layout[r][c])

\* C12 (as claimed): a load that aborts on an illegal character leaves no
\* partially parsed layout in the scene: the grid is not a strict prefix of
\* the layout's rows and the player coordinate is the one from before the
\* call.
C12_NoPartialLoad ==
    [][(op' = "load" /\ panicked') =>
            (~PartialGrid(map', loaded') /\ player' = player)]_vars

\* The direction of a move, by its name.
DirOf(name) ==
    CASE name = "move_right" -> <<0, 1>>
      [] name = "move_left" -> <<0, -1>>
      [] name = "move_upward" -> <<-1, 0>>
      [] name = "move_down" -> <<1, 0>>

CaseCells(m) == {rc \in Coords(m) : At(m, rc) \in CaseBearing}

\* C13: in a scene with exactly one case that is not solved, a successful
\* move with a Case one ahead and a Target two ahead turns the cell two
\* ahead into CaseOnTarget and makes the scene solved; and on "iox" the
\* first move_right succeeds and the scene, unsolved before it, is solved
\* after it.  (That a solved state of the 5x5 example can be reached is the
\* witness.)
C13_PushSolves ==
    /\ [][(/\ op' \in MoveOps /\ ret' /\ ~panicked'
           /\ Cardinality(CaseCells(map)) = 1
           /\ ~IsPass(map)
           /\ At(map, Ahead(player, DirOf(op'), 1)) = "Case"
           /\ At(map, Ahead(player, DirOf(op'), 2)) = "Target") =>
                (/\ At(map', Ahead(player, DirOf(op'), 2)) = "CaseOnTarget"
                 /\ IsPass(map'))]_vars
    /\ [][(op = "load" /\ loaded = LayoutRow /\ op' = "move_right") =>
                (~IsPass(map) /\ ret' /\ ~panicked' /\ IsPass(map'))]_vars

\* The 5x5 example has been solved and is_pass has said so.
C13_Witness ==
    /\ loaded = LayoutExample /\ ~panicked
    /\ op = "is_pass" /\ ret
    /\ At(map, <<3, 3>>) = "CaseOnTarget"

\* C14: a successful move in direction d from player coordinate p pushes
\* exactly the record (p, p+d, p+2d, the cells at those coordinates before
\* the move) and sets player to p+d; a rejected move and an undo on an empty
\* history leave the history as it is; an undo on a non-empty history
\* removes exactly its last record.
C14_HistoryBookkeeping ==
    [][/\ (op' \in MoveOps /\ ret' /\ ~panicked') =>
            LET d == DirOf(op')
                p1 == Ahead(player, d, 1)
                p2 == Ahead(player, d, 2)
            IN  /\ history' = Append(history,
                        <<player, p1, p2, <<At(map, player), At(map, p1), At(map, p2)>> >>)
                /\ Len(history') = Len(history) + 1
                /\ player' = p1
       /\ (op' \in MoveOps /\ ~ret') => history' = history
       /\ (op' = "undo" /\ history # <<>>) =>
            /\ Len(history') = Len(history) - 1
            /\ history' = SubSeq(history, 1, Len(history) - 1)
       /\ (op' = "undo" /\ history = <<>>) => history' = <<>>]_vars

\* A second successful move has pushed its record on top of the first.
C14_Witness ==
    /\ op \in MoveOps /\ ret /\ ~panicked
    /\ Len(history) = 2
    /\ history[2][1] = history[1][2]
    /\ history[2][2] = player

\* Undo repeated until the history is empty (or an undo panics).
RECURSIVE UndoAll(_, _, _)
UndoAll(m, pl, h) ==
    IF h = <<>>
    THEN [map |-> m, player |-> pl, history |-> h, panic |-> FALSE]
    ELSE LET u == UndoResult(m, pl, h)
         IN  IF u.panic
             THEN [map |-> u.map, player |-> u.player, history |-> u.history, panic |-> TRUE]
             ELSE UndoAll(u.map, u.player, u.history)

\* C15 (as claimed): in any state reached from the most recent load by
\* moves and undos, undoing until nothing changes ends, without a panic, in
\* the grid and the player coordinate that load produced; right after a
\* load, when no move was made since, no undo changes the scene.
C15_UndoWalksBack ==
    (loads > 0 /\ ~panicked) =>
        LET first == LoadResult(loaded, <<0, 0>>, <<>>)
            back == UndoAll(map, player, history)
        IN  /\ ~back.panic
            /\ back.map = first.map
            /\ back.player = first.player
            /\ op = "load" => history = <<>>

\* The grids m and n have the same shape and agree outside the cells in touched.
SameOutside(m, n, touched) ==
    /\ Len(n) = Len(m)
    /\ \A r \in 1 .. Len(m) : Len(n[r]) = Len(m[r])
    /\ \A rc \in Coords(m) \ touched : At(n, rc) = At(m, rc)

\* C16: a successful move in direction d from player coordinate p changes
\* no grid cell other than p, p+d and p+2d, and an undo changes no grid
\* cell other than the three coordinates of the record it pops.
C16_Frame ==
    [][/\ (op' \in MoveOps /\ ret' /\ ~panicked') =>
            SameOutside(map, map', {Ahead(player, DirOf(op'), k) : k \in 0 .. 2})
       /\ (op' = "undo" /\ history # <<>>) =>
            SameOutside(map, map', {TopRecord[1], TopRecord[2], TopRecord[3]})]_vars

\* An undo has put back a pushed case, next to a cell it had to leave alone.
C16_Witness ==
    /\ op = "undo" /\ ret /\ ~panicked
    /\ loaded = LayoutOpen
    /\ At(map, <<2, 3>>) = "Case"
    /\ At(map, <<3, 2>>) = "Case"
    /\ player = <<2, 2>>

\* C17: for every cell c, overlaying the occupant of seprate(c) on its
\* floor gives c back; for a non-wall c the floor is Ground or Target and
\* the occupant is Ground (none), Case or Player, and no other non-wall cell
\* decomposes to the same pair; and overlay, given the pair of a cell,
\* returns that cell.
C17_DecomposeOverlay ==
    /\ op = "seprate" =>
          LET c == triple[1]
              floor == shifted[1]
              occupant == shifted[2]
          IN  /\ overlay(floor, occupant) = c
              /\ c # "Wall" =>
                    /\ floor \in BareFloor
                    /\ occupant \in {"Ground", "Case", "Player"}
                    /\ \A other \in Cell \ {"Wall", c} : seprate(other) # shifted
    /\ op = "overlay" =>
          \A c \in Cell : seprate(c) = triple => shifted = <<c>>

\* seprate has split a case on a target into the target and the case.
C17_Witness ==
    /\ op = "seprate"
    /\ triple = <<"CaseOnTarget">>
    /\ shifted = <<"Target", "Case">>

\* How many of the three cells of t are in the set kind.
CountIn(t, kind) == Cardinality({i \in 1 .. 3 : t[i] \in kind})

\* Over all 343 triples, whether shift succeeds or fails: the returned
\* triple has as many case-bearing, player-bearing and Wall cells as the
\* input.
ShiftKeepsOccupants ==
    \A t \in Triples :
        /\ CountIn(shift(t)[1], CaseBearing) = CountIn(t, CaseBearing)
        /\ CountIn(shift(t)[1], PlayerBearing) = CountIn(t, PlayerBearing)
        /\ CountIn(shift(t)[1], {"Wall"}) = CountIn(t, {"Wall"})

\* C18 (as claimed): shift keeps the numbers of cases, players and walls of
\* every triple, and so every move and every undo leaves the number of
\* cases on the grid as it was.
C18_OccupantsKept ==
    [][/\ ShiftKeepsOccupants
       /\ (op' \in MoveOps \cup {"undo"}) =>
            Cardinality(CaseCells(map')) = Cardinality(CaseCells(map))]_vars

\* The same for the moves alone.
MovesKeepCases ==
    [][/\ ShiftKeepsOccupants
       /\ op' \in MoveOps =>
            Cardinality(CaseCells(map')) = Cardinality(CaseCells(map))]_vars

\* The floor class of a cell: Wall, ground-floored or target-floored.
Terrain(c) ==
    CASE c = "Wall" -> "wall"
      [] c \in {"Ground", "Case", "Player"} -> "ground"
      [] c \in {"Target", "CaseOnTarget", "PlayerOnTarget"} -> "target"

\* C19: after a single load, through all moves and undos, the grid keeps
\* the shape of the layout and every position keeps the floor class the
\* layout gave it: walls stay walls (never a player or a case), and the
\* targets stay where they are.
C19_TerrainImmutable ==
    (loads > 0 /\ ~panicked) =>
        /\ Len(map) = Len(loaded)
        /\ \A r \in 1 .. Len(map) :
              /\ Len(map[r]) = Len(loaded[r])
              /\ \A c \in 1 .. Len(map[r]) :
                    Terrain(map[r][c]) = Terrain(ParseChar(loaded[r][c]))

\* In the open layout a case stands on the target and the player has left
\* the target it started on.
C19_Witness ==
    /\ loaded = LayoutOpen /\ ~panicked
    /\ At(map, <<3, 1>>) = "CaseOnTarget"
    /\ At(map, <<2, 2>>) = "Target"

Directions == {<<0, 1>>, <<0, -1>>, <<-1, 0>>, <<1, 0>>}

\* C20: after a single load of a layout with one player character, every
\* history record has its three coordinates inside the grid and consecutive
\* along one of the four directions, the first cell of its triple is
\* player-bearing, the mid coordinate of the top record is the player
\* coordinate, and the mid coordinate of each record is the from coordinate
\* of the record above it.
C20_HistoryChain ==
    (loads > 0 /\ ~panicked) =>
        \A i \in 1 .. Len(history) :
            LET rec == history[i]
            IN  /\ InBounds(map, rec[1]) /\ InBounds(map, rec[2]) /\ InBounds(map, rec[3])
                /\ \E d \in Directions :
                      rec[2] = Ahead(rec[1], d, 1) /\ rec[3] = Ahead(rec[1], d, 2)
                /\ rec[4][1] \in PlayerBearing
                /\ i = Len(history) => rec[2] = player
                /\ i < Len(history) => rec[2] = history[i + 1][1]

\* Three records are on the stack, the second after a turn, the last a push.
C20_Witness ==
    /\ ~panicked /\ Len(history) = 3
    /\ history[1][3] # Ahead(history[2][1], <<history[2][2][1] - history[2][1][1],
                                             history[2][2][2] - history[2][1][2]>>, 1)
    /\ history[3][4][2] \in CaseBearing

====
